---- MODULE Spec2Model ----
(***************************************************************************)
(* The I2C protocol decoder of decoders/i2c.py as a state machine.         *)
(*                                                                         *)
(* The fields of the Decoder object are the variables of the same name.    *)
(* Every action is one call of Decoder.decode, which folds the body of the *)
(* for loop (decode_sample) over the samples of the call; the host feeds   *)
(* one sample per call, of its own choice or the next one of a well-formed *)
(* waveform.  The helpers of the class are operators on a record holding   *)
(* the fields; what Decoder.put hands to the host is appended to the       *)
(* record's proto / ann fields.                                            *)
(***************************************************************************)
EXTENDS Integers, Sequences, FiniteSets, TLC

\* ------------------------------------------------------------------ bounds

\* Samples of one decode call of a session fed in chunks, and samples the
\* chunks of the host's choice may number in such a session.
MaxChunk == 2
MaxChunkSamples == 6

\* Samples the free decode calls of a session may consume in total.
MaxSamples == 20

\* The same, in a session that opened on a well-formed waveform.
MaxTail == 21

\* Data bytes of a well-formed transfer, and samples a session of well-formed
\* transfers may consume in total.
MaxData == 2
MaxWaveSamples == 91

\* ------------------------------------------------------- program constants

ANN_SHIFTED == 0
ANN_SHIFTED_SHORT == 1
ANN_RAW == 2

FIND_START == 0
FIND_ADDRESS == 1
FIND_DATA == 2

\* Python's None in an integer-valued slot (oldscl, oldsda, a packet's data).
None == -1

\* Python's None in a packet's ack slot, whose other values are strings.
NoAck == "None"

\* A local name that was never assigned (d, cmd in found_address_or_data).
Unbound == "<unbound>"

\* protocol[key][0] is the verbose label, protocol[key][1] the short one.
protocol ==
  [ START         |-> <<"START", "S">>,
    START_REPEAT  |-> <<"START REPEAT", "Sr">>,
    STOP          |-> <<"STOP", "P">>,
    ACK           |-> <<"ACK", "A">>,
    NACK          |-> <<"NACK", "N">>,
    ADDRESS_READ  |-> <<"ADDRESS READ", "AR">>,
    ADDRESS_WRITE |-> <<"ADDRESS WRITE", "AW">>,
    DATA_READ     |-> <<"DATA READ", "DR">>,
    DATA_WRITE    |-> <<"DATA WRITE", "DW">> ]

\* --------------------------------------------------------------- variables

VARIABLES
  samplecnt, bitcount, databyte, wr, startsample, is_repeat_start, state,
  oldscl, oldsda,
  raised,      \* the exception that left decode, "" when none did
  feed,        \* what the host is feeding: samples of its choice, or a waveform
  pending,     \* the samples of that waveform still to feed
  log,         \* the packets put since that waveform began
  out_proto,   \* what the latest decode call put on the protocol output
  out_ann,     \* what the latest decode call put on the annotation output
  hist,        \* history of the session (not program state)
  fed          \* samples the free decode calls consumed (not program state)

vars == <<samplecnt, bitcount, databyte, wr, startsample, is_repeat_start,
          state, oldscl, oldsda, raised, feed, pending, log, out_proto, out_ann,
          hist, fed>>

\* The Decoder object at the start of a decode call.
Self ==
  [ samplecnt |-> samplecnt, bitcount |-> bitcount, databyte |-> databyte,
    wr |-> wr, startsample |-> startsample,
    is_repeat_start |-> is_repeat_start, state |-> state,
    oldscl |-> oldscl, oldsda |-> oldsda,
    raised |-> "", proto |-> <<>>, ann |-> <<>> ]

\* ------------------------------------------------------------- formatting

HexChar ==
  <<"0", "1", "2", "3", "4", "5", "6", "7",
    "8", "9", "a", "b", "c", "d", "e", "f">>

RECURSIVE hex(_)
\* "%x" % n
hex(n) == IF n < 16 THEN HexChar[n + 1]
          ELSE hex(n \div 16) \o HexChar[(n % 16) + 1]

\* "0x%.2x" % n and "0x%02x" % n: at least two hex digits, more when needed.
hex02(n) == "0x" \o (IF n < 16 THEN "0" \o hex(n) ELSE hex(n))

\* ------------------------------------------------------- the Decoder class

\* Decoder.put: the host receives (0, 0, output_id, data).
put(self, output_id, d) ==
  IF output_id = "out_proto"
  THEN [self EXCEPT !.proto = Append(@, <<0, 0, d>>)]
  ELSE [self EXCEPT !.ann = Append(@, <<0, 0, d>>)]

\* is_start_condition that takes the levels of a start for the transition.
is_start_condition_level(self, scl, sda) ==
  sda = 0 /\ scl = 1

is_start_condition(self, scl, sda) ==
  (self.oldsda = 1 /\ sda = 0) /\ scl = 1

is_data_bit(self, scl, sda) ==
  self.oldscl = 0 /\ scl = 1

is_stop_condition(self, scl, sda) ==
  (self.oldsda = 0 /\ sda = 1) /\ scl = 1

\* found_start that clears bitcount and leaves databyte as it is.
found_start_keeps_byte(self, scl, sda) ==
  LET cmd == IF self.is_repeat_start = 1 THEN "START_REPEAT" ELSE "START"
      s1  == put(self, "out_proto", <<cmd, None, NoAck>>)
      s2  == put(s1, "out_ann", <<ANN_SHIFTED, <<protocol[cmd][1]>>>>)
      s3  == put(s2, "out_ann", <<ANN_SHIFTED_SHORT, <<protocol[cmd][2]>>>>)
  IN  [s3 EXCEPT !.state = FIND_ADDRESS,
                 !.bitcount = 0,
                 !.is_repeat_start = 1,
                 !.wr = -1]

\* found_start that clears databyte and leaves bitcount as it is.
found_start_keeps_count(self, scl, sda) ==
  LET cmd == IF self.is_repeat_start = 1 THEN "START_REPEAT" ELSE "START"
      s1  == put(self, "out_proto", <<cmd, None, NoAck>>)
      s2  == put(s1, "out_ann", <<ANN_SHIFTED, <<protocol[cmd][1]>>>>)
      s3  == put(s2, "out_ann", <<ANN_SHIFTED_SHORT, <<protocol[cmd][2]>>>>)
  IN  [s3 EXCEPT !.state = FIND_ADDRESS,
                 !.databyte = 0,
                 !.is_repeat_start = 1,
                 !.wr = -1]

\* found_start that reads is_repeat_start and leaves it as it is.
found_start_leaves_flag(self, scl, sda) ==
  LET cmd == IF self.is_repeat_start = 1 THEN "START_REPEAT" ELSE "START"
      s1  == put(self, "out_proto", <<cmd, None, NoAck>>)
      s2  == put(s1, "out_ann", <<ANN_SHIFTED, <<protocol[cmd][1]>>>>)
      s3  == put(s2, "out_ann", <<ANN_SHIFTED_SHORT, <<protocol[cmd][2]>>>>)
  IN  [s3 EXCEPT !.state = FIND_ADDRESS,
                 !.bitcount = 0,
                 !.databyte = 0,
                 !.wr = -1]

\* found_start that leaves bitcount and databyte as they are.
found_start_resets_nothing(self, scl, sda) ==
  LET cmd == IF self.is_repeat_start = 1 THEN "START_REPEAT" ELSE "START"
      s1  == put(self, "out_proto", <<cmd, None, NoAck>>)
      s2  == put(s1, "out_ann", <<ANN_SHIFTED, <<protocol[cmd][1]>>>>)
      s3  == put(s2, "out_ann", <<ANN_SHIFTED_SHORT, <<protocol[cmd][2]>>>>)
  IN  [s3 EXCEPT !.state = FIND_ADDRESS,
                 !.is_repeat_start = 1,
                 !.wr = -1]

found_start(self, scl, sda) ==
  LET cmd == IF self.is_repeat_start = 1 THEN "START_REPEAT" ELSE "START"
      s1  == put(self, "out_proto", <<cmd, None, NoAck>>)
      s2  == put(s1, "out_ann", <<ANN_SHIFTED, <<protocol[cmd][1]>>>>)
      s3  == put(s2, "out_ann", <<ANN_SHIFTED_SHORT, <<protocol[cmd][2]>>>>)
  IN  [s3 EXCEPT !.state = FIND_ADDRESS,
                 !.bitcount = 0,
                 !.databyte = 0,
                 !.is_repeat_start = 1,
                 !.wr = -1]

\* accumulate that fills databyte from the least significant bit up.
accumulate_lsb_first(self, scl, sda) ==
  LET s1 == IF self.startsample = -1
            THEN [self EXCEPT !.startsample = self.samplecnt]
            ELSE self
  IN  [s1 EXCEPT !.bitcount = @ + 1,
                 !.databyte = @ + (sda * (2 ^ self.bitcount))]

\* Lines 206-213: count the bit and shift it into databyte, MSB first.
accumulate(self, scl, sda) ==
  LET s1 == IF self.startsample = -1
            THEN [self EXCEPT !.startsample = self.samplecnt]
            ELSE self
  IN  [s1 EXCEPT !.bitcount = @ + 1,
                 !.databyte = (@ * 2) + sda]

\* raw_annotation that formats databyte after the ack bit was shifted out.
raw_annotation_shifted(self) ==
  put(self, "out_ann", <<ANN_RAW, <<hex02(self.databyte \div 2)>>>>)

\* Line 221: the raw annotation, put before any bit is shifted out.
raw_annotation(self) ==
  put(self, "out_ann", <<ANN_RAW, <<hex02(self.databyte)>>>>)

\* Lines 228-231: wr, from the byte whose ack bit was shifted out.
direction(byte) == IF byte % 2 = 1 THEN 0 ELSE 1

\* ack_bit that takes a low data line for a NACK.
ack_bit_inverted(sda) == IF sda = 0 THEN "NACK" ELSE "ACK"

\* Lines 240-243: ack_bit.
ack_bit(sda) == IF sda = 1 THEN "NACK" ELSE "ACK"

\* command that names the data bytes by the opposite direction.
command_data_swapped(st, w) ==
  IF st = FIND_ADDRESS /\ w = 1 THEN "ADDRESS_WRITE"
  ELSE IF st = FIND_ADDRESS /\ w = 0 THEN "ADDRESS_READ"
  ELSE IF st = FIND_DATA /\ w = 1 THEN "DATA_READ"
  ELSE IF st = FIND_DATA /\ w = 0 THEN "DATA_WRITE"
  ELSE Unbound

\* Lines 246-253: cmd, which no branch assigns when none applies.
command(st, w) ==
  IF st = FIND_ADDRESS /\ w = 1 THEN "ADDRESS_WRITE"
  ELSE IF st = FIND_ADDRESS /\ w = 0 THEN "ADDRESS_READ"
  ELSE IF st = FIND_DATA /\ w = 1 THEN "DATA_WRITE"
  ELSE IF st = FIND_DATA /\ w = 0 THEN "DATA_READ"
  ELSE Unbound

\* reset_group that clears bitcount and leaves databyte as it is.
reset_group_keeps_byte(self) ==
  [self EXCEPT !.bitcount = 0, !.startsample = -1]

\* Lines 266-267.
reset_group(self) ==
  [self EXCEPT !.bitcount = 0, !.databyte = 0, !.startsample = -1]

\* Lines 224-231: shift the ack bit out; an address byte sets wr.
shift_out(self) ==
  [self EXCEPT !.databyte = @ \div 2,
               !.wr = IF self.state = FIND_ADDRESS
                      THEN direction(self.databyte \div 2) ELSE @]

\* Lines 226-237: d, which no branch assigns in any other state.
value(self) ==
  IF self.state = FIND_ADDRESS THEN self.databyte \div 2
  ELSE IF self.state = FIND_DATA THEN self.databyte
  ELSE None

\* Lines 269-274.
next_state(self) ==
  IF self.state = FIND_ADDRESS THEN [self EXCEPT !.state = FIND_DATA]
  ELSE self

\* emit_byte that leaves the ack slot of the packet empty.
emit_byte_no_ack(self, ack) ==
  LET d   == value(self)
      cmd == command(self.state, self.wr)
  IN  IF cmd = Unbound \/ d = None
      THEN [self EXCEPT !.raised = "UnboundLocalError"]
      ELSE next_state(reset_group(
             put(put(put(self, "out_proto", <<cmd, d, NoAck>>),
                     "out_ann",
                     <<ANN_SHIFTED,
                       <<protocol[cmd][1], hex02(d), protocol[ack][1]>>>>),
                 "out_ann",
                 <<ANN_SHIFTED_SHORT,
                   <<protocol[cmd][2], hex02(d), protocol[ack][2]>>>>)))

\* Lines 245-274: put the byte and make ready for the next one.  Where Python
\* would read cmd or d before any branch assigned it, the call raises.
emit_byte(self, ack) ==
  LET d   == value(self)
      cmd == command(self.state, self.wr)
  IN  IF cmd = Unbound \/ d = None
      THEN [self EXCEPT !.raised = "UnboundLocalError"]
      ELSE next_state(reset_group(
             put(put(put(self, "out_proto", <<cmd, d, ack>>),
                     "out_ann",
                     <<ANN_SHIFTED,
                       <<protocol[cmd][1], hex02(d), protocol[ack][1]>>>>),
                 "out_ann",
                 <<ANN_SHIFTED_SHORT,
                   <<protocol[cmd][2], hex02(d), protocol[ack][2]>>>>)))

\* Lines 219-274: the nine bits are in.
complete_group(self, scl, sda) ==
  emit_byte(shift_out(raw_annotation(self)), ack_bit(sda))

\* found_address_or_data that takes the group for complete after eight bits.
found_address_or_data_eight(self, scl, sda) ==
  LET s1 == accumulate(self, scl, sda)
  IN  IF s1.bitcount # 8 THEN s1 ELSE complete_group(s1, scl, sda)

found_address_or_data(self, scl, sda) ==
  LET s1 == accumulate(self, scl, sda)
  IN  IF s1.bitcount # 9 THEN s1 ELSE complete_group(s1, scl, sda)

\* found_stop that leaves is_repeat_start as it is.
found_stop_keeps_repeat(self, scl, sda) ==
  LET s1 == put(self, "out_proto", <<"STOP", None, NoAck>>)
      s2 == put(s1, "out_ann", <<ANN_SHIFTED, <<protocol["STOP"][1]>>>>)
      s3 == put(s2, "out_ann", <<ANN_SHIFTED_SHORT, <<protocol["STOP"][2]>>>>)
  IN  [s3 EXCEPT !.state = FIND_START,
                 !.wr = -1]

\* found_stop that leaves wr as it is.
found_stop_keeps_wr(self, scl, sda) ==
  LET s1 == put(self, "out_proto", <<"STOP", None, NoAck>>)
      s2 == put(s1, "out_ann", <<ANN_SHIFTED, <<protocol["STOP"][1]>>>>)
      s3 == put(s2, "out_ann", <<ANN_SHIFTED_SHORT, <<protocol["STOP"][2]>>>>)
  IN  [s3 EXCEPT !.state = FIND_START,
                 !.is_repeat_start = 0]

found_stop(self, scl, sda) ==
  LET s1 == put(self, "out_proto", <<"STOP", None, NoAck>>)
      s2 == put(s1, "out_ann", <<ANN_SHIFTED, <<protocol["STOP"][1]>>>>)
      s3 == put(s2, "out_ann", <<ANN_SHIFTED_SHORT, <<protocol["STOP"][2]>>>>)
  IN  [s3 EXCEPT !.state = FIND_START,
                 !.is_repeat_start = 0,
                 !.wr = -1]

\* dispatch that tests for start and stop in FIND_ADDRESS as in FIND_DATA.
dispatch_address_as_data(self, scl, sda) ==
  IF self.state = FIND_START
  THEN IF is_start_condition(self, scl, sda)
       THEN found_start(self, scl, sda) ELSE self
  ELSE IF self.state \in {FIND_ADDRESS, FIND_DATA}
  THEN IF is_data_bit(self, scl, sda)
       THEN found_address_or_data(self, scl, sda)
       ELSE IF is_start_condition(self, scl, sda)
       THEN found_start(self, scl, sda)
       ELSE IF is_stop_condition(self, scl, sda)
       THEN found_stop(self, scl, sda)
       ELSE self
  ELSE self

\* dispatch that honours a stop condition in FIND_ADDRESS.
dispatch_address_stops(self, scl, sda) ==
  IF self.state = FIND_START
  THEN IF is_start_condition(self, scl, sda)
       THEN found_start(self, scl, sda) ELSE self
  ELSE IF self.state = FIND_ADDRESS
  THEN IF is_data_bit(self, scl, sda)
       THEN found_address_or_data(self, scl, sda)
       ELSE IF is_stop_condition(self, scl, sda)
       THEN found_stop(self, scl, sda)
       ELSE self
  ELSE IF self.state = FIND_DATA
  THEN IF is_data_bit(self, scl, sda)
       THEN found_address_or_data(self, scl, sda)
       ELSE IF is_start_condition(self, scl, sda)
       THEN found_start(self, scl, sda)
       ELSE IF is_stop_condition(self, scl, sda)
       THEN found_stop(self, scl, sda)
       ELSE self
  ELSE self

\* dispatch that tests, in FIND_DATA, for start and stop before the data bit.
dispatch_start_first(self, scl, sda) ==
  IF self.state = FIND_START
  THEN IF is_start_condition(self, scl, sda)
       THEN found_start(self, scl, sda) ELSE self
  ELSE IF self.state = FIND_ADDRESS
  THEN IF is_data_bit(self, scl, sda)
       THEN found_address_or_data(self, scl, sda) ELSE self
  ELSE IF self.state = FIND_DATA
  THEN IF is_start_condition(self, scl, sda)
       THEN found_start(self, scl, sda)
       ELSE IF is_stop_condition(self, scl, sda)
       THEN found_stop(self, scl, sda)
       ELSE IF is_data_bit(self, scl, sda)
       THEN found_address_or_data(self, scl, sda)
       ELSE self
  ELSE self

\* Lines 302-318: the state machine of one sample.
dispatch(self, scl, sda) ==
  IF self.state = FIND_START
  THEN IF is_start_condition(self, scl, sda)
       THEN found_start(self, scl, sda) ELSE self
  ELSE IF self.state = FIND_ADDRESS
  THEN IF is_data_bit(self, scl, sda)
       THEN found_address_or_data(self, scl, sda) ELSE self
  ELSE IF self.state = FIND_DATA
  THEN IF is_data_bit(self, scl, sda)
       THEN found_address_or_data(self, scl, sda)
       ELSE IF is_start_condition(self, scl, sda)
       THEN found_start(self, scl, sda)
       ELSE IF is_stop_condition(self, scl, sda)
       THEN found_stop(self, scl, sda)
       ELSE self
  ELSE self

\* Lines 292-322: the body of the for loop, for the sample (scl, sda).
decode_sample(self, scl, sda) ==
  LET s1 == [self EXCEPT !.samplecnt = @ + 1]
  IN  IF s1.oldscl = None
      THEN [s1 EXCEPT !.oldscl = scl, !.oldsda = sda]
      ELSE LET s2 == dispatch(s1, scl, sda)
           IN  IF s2.raised # "" THEN s2
               ELSE [s2 EXCEPT !.oldscl = scl, !.oldsda = sda]

\* ----------------------------------------------------------------- history

\* What an observer of the samples and of the protocol output has seen:
\*   before   the command of the last packet put before the latest sample,
\*            "" when there was none
\*   address  the command of the last address packet put before the latest
\*            sample, "" when there was none
\*   prev     the previous sample, <<>> before the first one
\*   open     before the latest sample, a Start packet was put and no Stop
\*            packet after it
\*   bits     the data-line levels of the rising clock edges seen, while open,
\*            since the latest Start packet or address/data packet
\*   emitted  the packets put while the latest sample was dispatched
\*   group    bits plus the latest sample's level when that sample completed
\*            a byte, <<>> otherwise
\*   acc      databyte as line 216 saw it when the latest sample completed a
\*            byte, None otherwise
NoHistory ==
  [ before |-> "", address |-> "", prev |-> <<>>, open |-> FALSE,
    bits |-> <<>>, emitted |-> <<>>, group |-> <<>>, acc |-> None ]

IsStartCmd(c) == c \in {"START", "START_REPEAT"}
IsAddressCmd(c) == c \in {"ADDRESS_READ", "ADDRESS_WRITE"}
IsDataCmd(c) == c \in {"DATA_READ", "DATA_WRITE"}
IsByteCmd(c) == IsAddressCmd(c) \/ IsDataCmd(c)
IsStopCmd(c) == c = "STOP"

\* The packets of an output, without the sample range put adds.
Packets(out) == [i \in 1..Len(out) |-> out[i][3]]
Cmds(pkts) == [i \in 1..Len(pkts) |-> pkts[i][1]]

\* The last command of cmds for which P holds, dflt when there is none.
LastCmd(cmds, P(_), dflt) ==
  LET I == {i \in 1..Len(cmds) : P(cmds[i])}
  IN  IF I = {} THEN dflt ELSE cmds[CHOOSE i \in I : \A j \in I : j <= i]

\* Whether the session is open after the commands cmds, given it was before.
OpenAfter(was, cmds) ==
  LET c == LastCmd(cmds, LAMBDA x : IsStartCmd(x) \/ IsStopCmd(x), "")
  IN  IF c = "" THEN was ELSE IsStartCmd(c)

\* The history after the sample (scl, sda) took the decoder from pre to post.
observe(h, pre, post, scl, sda) ==
  LET old    == Cmds(h.emitted)
      new    == SubSeq(Packets(post.proto), Len(pre.proto) + 1, Len(post.proto))
      cmds   == Cmds(new)
      open   == OpenAfter(h.open, old)
      has(P(_)) == \E i \in 1..Len(cmds) : P(cmds[i])
      rising == h.prev # <<>> /\ h.prev[1] = 0 /\ scl = 1
      byte   == has(IsByteCmd)
  IN  [ before  |-> LastCmd(old, LAMBDA x : TRUE, h.before),
        address |-> LastCmd(old, IsAddressCmd, h.address),
        prev    |-> <<scl, sda>>,
        open    |-> open,
        bits    |-> IF has(IsStartCmd) \/ has(IsStopCmd) \/ byte THEN <<>>
                    ELSE IF open /\ rising THEN Append(h.bits, sda)
                    ELSE h.bits,
        emitted |-> new,
        group   |-> IF byte THEN Append(h.bits, sda) ELSE <<>>,
        acc     |-> IF byte
                    THEN accumulate([pre EXCEPT !.samplecnt = @ + 1],
                                    scl, sda).databyte
                    ELSE None ]

\* ------------------------------------------------------------- decode call

RECURSIVE decode(_, _, _)
\* Decoder.decode(timeoffset, duration, data): the for loop over the samples,
\* with the observer's history h along.  An exception raised in the body
\* ends the call.
decode(self, h, samples) ==
  IF samples = <<>> THEN [self |-> self, hist |-> h]
  ELSE LET scl  == Head(samples)[1]
           sda  == Head(samples)[2]
           post == decode_sample(self, scl, sda)
           seen == observe(h, self, post, scl, sda)
       IN  \* seen.prev is never empty: the test makes seen's evaluation eager
           IF post.raised # "" \/ seen.prev = <<>>
           THEN [self |-> post, hist |-> seen]
           ELSE decode(post, seen, Tail(samples))

\* ------------------------------------------------------------------ actions

\* A constructor that takes the idle bus for the previous sample.
Init_idle_bus ==
  /\ samplecnt = 0
  /\ bitcount = 0
  /\ databyte = 0
  /\ wr = -1
  /\ startsample = -1
  /\ is_repeat_start = 0
  /\ state = FIND_START
  /\ oldscl = 1
  /\ oldsda = 1
  /\ raised = ""
  /\ feed = [kind |-> "none"]
  /\ pending = <<>>
  /\ log = <<>>
  /\ out_proto = <<>>
  /\ out_ann = <<>>
  /\ hist = NoHistory
  /\ fed = 0

\* Decoder.__init__
Init ==
  /\ samplecnt = 0
  /\ bitcount = 0
  /\ databyte = 0
  /\ wr = -1
  /\ startsample = -1
  /\ is_repeat_start = 0
  /\ state = FIND_START
  /\ oldscl = None
  /\ oldsda = None
  /\ raised = ""
  /\ feed = [kind |-> "none"]
  /\ pending = <<>>
  /\ log = <<>>
  /\ out_proto = <<>>
  /\ out_ann = <<>>
  /\ hist = NoHistory
  /\ fed = 0

\* A decode call that takes its first sample for the first of the session.
Call_reseeds(samples) ==
  /\ raised = ""
  /\ \E done \in {decode([Self EXCEPT !.oldscl = None, !.oldsda = None],
                         hist, samples)} :
       LET post == done.self
       IN
         /\ samplecnt' = post.samplecnt
         /\ bitcount' = post.bitcount
         /\ databyte' = post.databyte
         /\ wr' = post.wr
         /\ startsample' = post.startsample
         /\ is_repeat_start' = post.is_repeat_start
         /\ state' = post.state
         /\ oldscl' = post.oldscl
         /\ oldsda' = post.oldsda
         /\ raised' = post.raised
         /\ out_proto' = post.proto
         /\ out_ann' = post.ann
         /\ hist' = done.hist

\* One call decode(timeoffset, duration, samples) by the host, which stops
\* feeding a decoder that raised.
Call(samples) ==
  /\ raised = ""
  /\ \E done \in {decode(Self, hist, samples)} :
       LET post == done.self
       IN
         /\ samplecnt' = post.samplecnt
         /\ bitcount' = post.bitcount
         /\ databyte' = post.databyte
         /\ wr' = post.wr
         /\ startsample' = post.startsample
         /\ is_repeat_start' = post.is_repeat_start
         /\ state' = post.state
         /\ oldscl' = post.oldscl
         /\ oldsda' = post.oldsda
         /\ raised' = post.raised
         /\ out_proto' = post.proto
         /\ out_ann' = post.ann
         /\ hist' = done.hist

Levels == {0, 1}
Samples == Levels \X Levels

\* ------------------------------------------------------ canonical waveform

\* The bus idles with both lines high; a start is the data line falling
\* while the clock is high; a bit is the data line set while the clock is
\* low, then the clock rising, then the clock falling; a stop is the data
\* line low while the clock is low, the clock rising, then the data line
\* rising; a repeated start is the data line high while the clock is low, the
\* clock rising, then the data line falling.
IdleWave == << <<1, 1>> >>
StartWave == << <<1, 0>> >>
BitWave(b) == << <<0, b>>, <<1, b>>, <<0, b>> >>
StopWave == << <<0, 0>>, <<1, 0>>, <<1, 1>> >>
RestartWave == << <<0, 1>>, <<1, 1>>, <<1, 0>> >>

\* Bit i (1 is the most significant) of the 8-bit number v.
BitOf(v, i) == (v \div (2 ^ (8 - i))) % 2

\* The byte v, most significant bit first, then the acknowledge bit a.
GroupWave(v, a) ==
  BitWave(BitOf(v, 1)) \o BitWave(BitOf(v, 2)) \o BitWave(BitOf(v, 3)) \o
  BitWave(BitOf(v, 4)) \o BitWave(BitOf(v, 5)) \o BitWave(BitOf(v, 6)) \o
  BitWave(BitOf(v, 7)) \o BitWave(BitOf(v, 8)) \o BitWave(a)

\* The waveforms a session may open on: idle bus, start, address 0x50 for
\* writing, acknowledged; and the same followed by a repeated start and
\* address 0x50 for reading, acknowledged.
Leads ==
  << IdleWave \o StartWave \o GroupWave(160, 0),
     IdleWave \o StartWave \o GroupWave(160, 0) \o RestartWave
       \o GroupWave(161, 0) >>

\* ----------------------------------------------------------- specification

\* What the samples of the host's choice may number in a session.
Budget == IF samplecnt = fed THEN MaxSamples ELSE MaxTail

\* A decode call on one sample of the host's choice, whatever its levels.
Decode ==
  \E sample \in Samples :
    /\ pending = <<>>
    /\ fed + 1 <= Budget
    /\ Call(<<sample>>)
    /\ feed' = [kind |-> "samples"]
    /\ fed' = fed + 1
    /\ UNCHANGED pending
    /\ log' = <<>>

\* The host begins the waveform wave, described by what: a decode call on
\* its first sample.
Begin(what, wave) ==
  /\ pending = <<>>
  /\ Call(<<Head(wave)>>)
  /\ feed' = what
  /\ pending' = Tail(wave)
  /\ log' = Packets(out_proto')
  /\ UNCHANGED fed

\* A decode call on the next sample of the waveform.
DecodePending ==
  /\ pending # <<>>
  /\ Call(<<Head(pending)>>)
  /\ pending' = Tail(pending)
  /\ log' = log \o Packets(out_proto')
  /\ UNCHANGED <<feed, fed>>

\* A session may open on a well-formed waveform.
DecodeLead ==
  \E i \in 1..Len(Leads) :
    /\ samplecnt = 0
    /\ Begin([kind |-> "lead", lead |-> i], Leads[i])

Next == Decode \/ DecodeLead \/ DecodePending

Spec == Init /\ [][Next]_vars

\* ------------------------------------------------------ well-formed traffic

\* Raw address bytes (address and direction bit) and data bytes of the
\* well-formed transfers: 0x21, 0xa0, 0xa1, 0xff and 0x00, 0x01, 0xff.
AddressBytes == {33, 160, 161, 255}
DataBytes == {0, 1, 255}
Groups(bytes) == [v : bytes, ack : Levels]

RECURSIVE GroupsWave(_)
GroupsWave(gs) ==
  IF gs = <<>> THEN <<>>
  ELSE GroupWave(Head(gs).v, Head(gs).ack) \o GroupsWave(Tail(gs))

\* Start, address byte, data bytes, stop.
Transfers ==
  [ kind : {"transfer"}, address : Groups(AddressBytes),
    bytes : UNION {[1..n -> Groups(DataBytes)] : n \in 0..MaxData} ]

TransferWave(t) ==
  IdleWave \o StartWave \o GroupWave(t.address.v, t.address.ack)
    \o GroupsWave(t.bytes) \o StopWave

\* Start, address byte, one data byte, repeated start, address byte, stop.
Combined ==
  [ kind : {"combined"}, address : Groups(AddressBytes),
    byte : Groups(DataBytes), again : Groups(AddressBytes) ]

CombinedWave(t) ==
  IdleWave \o StartWave \o GroupWave(t.address.v, t.address.ack)
    \o GroupWave(t.byte.v, t.byte.ack) \o RestartWave
    \o GroupWave(t.again.v, t.again.ack) \o StopWave

\* The host begins a transfer that fits the session.
DecodeTransfer ==
  \E t \in Transfers :
    /\ samplecnt + 32 + (27 * Len(t.bytes)) <= MaxWaveSamples
    /\ Begin(t, TransferWave(t))

\* The host begins a combined transfer that fits the session.
DecodeCombined ==
  \E t \in Combined :
    /\ samplecnt + 89 <= MaxWaveSamples
    /\ Begin(t, CombinedWave(t))

NextWave == DecodeTransfer \/ DecodeCombined \/ DecodePending

SpecWave == Init /\ [][NextWave]_vars

\* ------------------------------------------------------------------ claims

\* The packets the latest sample made the decoder put, and their commands.
Emitted == hist.emitted
EmittedCmds == Cmds(hist.emitted)

\* The command of the packet put just before the i-th of them, "" when the
\* i-th is the first packet of the session.
Before(i) == IF i = 1 THEN hist.before ELSE EmittedCmds[i - 1]

\* The latest sample completed a byte, which is the only packet it put.
ByteEmitted == Len(Emitted) = 1 /\ IsByteCmd(Emitted[1][1])

RECURSIVE Value(_)
\* The number whose binary digits are bits, most significant first.
Value(bits) ==
  IF bits = <<>> THEN 0
  ELSE (2 * Value(SubSeq(bits, 1, Len(bits) - 1))) + bits[Len(bits)]

\* The texts of the raw annotations of the latest decode call.
RawTexts ==
  LET raw == SelectSeq(Packets(out_ann), LAMBDA a : a[1] = ANN_RAW)
  IN  [i \in 1..Len(raw) |-> raw[i][2][1]]

\* The successor relation of the language
\* ( Start Address Data* ( Start Address Data* )* Stop )*.
Follows(p, c) ==
  \/ p = "" /\ IsStartCmd(c)
  \/ IsStartCmd(p) /\ IsAddressCmd(c)
  \/ IsByteCmd(p) /\ (IsDataCmd(c) \/ IsStartCmd(c) \/ IsStopCmd(c))
  \/ IsStopCmd(p) /\ IsStartCmd(c)

\* C1: the packets put form a prefix of the language
\* ( Start Address Data* ( Start Address Data* )* Stop )*: the first one is a
\* Start, an address byte follows every Start, and a data byte or a Stop
\* follows an address byte or a data byte only.
C1_EventGrammar ==
  \A i \in 1..Len(Emitted) :
    LET p == Before(i)
        c == EmittedCmds[i]
    IN  /\ Follows(p, c)
        /\ p = "" => IsStartCmd(c)
        /\ IsStartCmd(p) => IsAddressCmd(c)
        /\ IsDataCmd(c) \/ IsStopCmd(c) => IsByteCmd(p)

\* A Stop is put right after a data byte.
C1_Witness ==
  /\ Len(Emitted) = 1
  /\ IsStopCmd(EmittedCmds[1])
  /\ IsDataCmd(hist.before)

\* C2: a Start packet is START_REPEAT exactly when a Start packet was put
\* before it and no Stop packet between the two.
C2_RepeatedStart ==
  \A i \in 1..Len(Emitted) :
    IsStartCmd(EmittedCmds[i]) =>
      (EmittedCmds[i] = "START_REPEAT"
         <=> OpenAfter(hist.open, SubSeq(EmittedCmds, 1, i - 1)))

\* A plain START is put right after a Stop.
C2_Witness ==
  /\ Len(Emitted) = 1
  /\ EmittedCmds[1] = "START"
  /\ hist.before = "STOP"

\* C3: a data byte has the direction of the latest address byte.
C3_DataDirection ==
  \A i \in 1..Len(Emitted) :
    IsDataCmd(EmittedCmds[i]) =>
      LET a == LastCmd(SubSeq(EmittedCmds, 1, i - 1), IsAddressCmd,
                       hist.address)
      IN  /\ IsAddressCmd(a)
          /\ EmittedCmds[i] = "DATA_READ" <=> a = "ADDRESS_READ"

\* A data byte is read after the address byte that followed a repeated start
\* turned a write into a read.
C3_Witness ==
  /\ Len(Emitted) = 1
  /\ EmittedCmds[1] = "DATA_READ"
  /\ hist.address = "ADDRESS_READ"
  /\ feed.kind = "samples"

\* C4: a completed byte is read most significant bit first from the nine
\* levels b1..b9 of its rising clock edges: an address byte carries b1..b7
\* and reads iff b8 = 1, a data byte carries b1..b8.
C4_MsbFirst ==
  ByteEmitted =>
    LET b == hist.group
        p == Emitted[1]
    IN  /\ Len(b) = 9
        /\ IsAddressCmd(p[1]) =>
             /\ p[2] = Value(SubSeq(b, 1, 7))
             /\ p[1] = "ADDRESS_READ" <=> b[8] = 1
             /\ p[1] = "ADDRESS_WRITE" <=> b[8] = 0
        /\ IsDataCmd(p[1]) => p[2] = Value(SubSeq(b, 1, 8))

\* A data byte whose first bit is 0 and whose eighth bit is 1.
C4_Witness ==
  /\ ByteEmitted
  /\ IsDataCmd(Emitted[1][1])
  /\ hist.group[1] = 0
  /\ hist.group[8] = 1
  /\ Emitted[1][2] % 2 = 1

\* C5: a completed byte is a NACK iff the data line was high on its ninth
\* rising clock edge, which is the least significant bit of databyte before
\* the ack bit is shifted out.
C5_AckBit ==
  ByteEmitted =>
    /\ Len(hist.group) = 9
    /\ Emitted[1][3] = "NACK" <=> hist.group[9] = 1
    /\ Emitted[1][3] = "ACK" <=> hist.group[9] = 0
    /\ hist.group[9] = hist.acc % 2

\* A data byte that is not acknowledged.
C5_Witness ==
  /\ ByteEmitted
  /\ IsDataCmd(Emitted[1][1])
  /\ Emitted[1][3] = "NACK"
  /\ hist.prev[2] = 1

\* C6: an address byte is in 0..127 and a data byte in 0..255; databyte
\* holds nine bits when a byte completes.
C6_ValueRange ==
  ByteEmitted =>
    /\ hist.acc \in 0..511
    /\ IsAddressCmd(Emitted[1][1]) => Emitted[1][2] \in 0..127
    /\ IsDataCmd(Emitted[1][1]) => Emitted[1][2] \in 0..255

\* The largest address, right after a repeated start that cut a group short.
C6_Witness ==
  /\ ByteEmitted
  /\ IsAddressCmd(Emitted[1][1])
  /\ Emitted[1][2] = 127
  /\ hist.before = "START_REPEAT"
  /\ feed.kind = "samples"

\* C9 as claimed: the raw annotation of a completed byte shows the byte
\* without its ack bit, b1..b8.
C9_RawIsByte ==
  ByteEmitted =>
    RawTexts = <<hex02(Value(SubSeq(hist.group, 1, 8)))>>

\* C9, amended: the raw annotation of a completed byte shows databyte before
\* any bit is shifted out, b1..b9 with the ack bit, a number in 0..511.
C9_RawIsGroup ==
  ByteEmitted =>
    /\ RawTexts = <<hex02(Value(hist.group))>>
    /\ Value(hist.group) \in 0..511
    /\ Value(hist.group) = (2 * Value(SubSeq(hist.group, 1, 8))) + hist.group[9]

\* A byte whose raw annotation has three hex digits.
C9_Witness ==
  /\ ByteEmitted
  /\ RawTexts = <<"0x1ff">>

\* The first sample of a session arrives in a decode call of its own.
FirstSample == samplecnt = 0 /\ feed'.kind = "samples"

\* C10 as claimed: the first sample puts nothing and changes nothing but
\* oldscl and oldsda.
C10_FirstSampleOnlySeeds ==
  [][FirstSample =>
       /\ out_proto' = <<>> /\ out_ann' = <<>>
       /\ oldscl' = hist'.prev[1] /\ oldsda' = hist'.prev[2]
       /\ UNCHANGED <<samplecnt, bitcount, databyte, wr, startsample,
                      is_repeat_start, state, raised>>]_vars

\* C10, amended: the first sample puts nothing and changes nothing but
\* oldscl and oldsda, and samplecnt, which counts it.
C10_FirstSampleSeeds ==
  [][FirstSample =>
       /\ out_proto' = <<>> /\ out_ann' = <<>>
       /\ oldscl' = hist'.prev[1] /\ oldsda' = hist'.prev[2]
       /\ samplecnt' = 1
       /\ UNCHANGED <<bitcount, databyte, wr, startsample,
                      is_repeat_start, state, raised>>]_vars

\* The first sample had the clock high and the data line low, and no Start
\* was put.
C10_Witness ==
  /\ samplecnt = 1
  /\ feed.kind = "samples"
  /\ oldscl = 1 /\ oldsda = 0
  /\ state = FIND_START
  /\ bitcount = 0
  /\ out_proto = <<>>

\* The packet of the group (v, ack) under the command cmd.
AckName(a) == IF a = 1 THEN "NACK" ELSE "ACK"
AddressPacket(g) ==
  << IF g.v % 2 = 1 THEN "ADDRESS_READ" ELSE "ADDRESS_WRITE",
     g.v \div 2, AckName(g.ack) >>
DataPacket(g, a) ==
  << IF a.v % 2 = 1 THEN "DATA_READ" ELSE "DATA_WRITE", g.v, AckName(g.ack) >>
StartPacket(repeated) ==
  << IF repeated THEN "START_REPEAT" ELSE "START", None, NoAck >>
StopPacket == <<"STOP", None, NoAck>>

\* What a well-formed transfer is to decode to.
Expected(t) ==
  IF t.kind = "transfer"
  THEN <<StartPacket(FALSE), AddressPacket(t.address)>>
         \o [i \in 1..Len(t.bytes) |-> DataPacket(t.bytes[i], t.address)]
         \o <<StopPacket>>
  ELSE << StartPacket(FALSE), AddressPacket(t.address),
          DataPacket(t.byte, t.address), StartPacket(TRUE),
          AddressPacket(t.again), StopPacket >>

IsPrefix(a, b) == Len(a) <= Len(b) /\ a = SubSeq(b, 1, Len(a))

\* C7: the waveform of a well-formed transfer decodes to Start, the address
\* byte, one data byte per byte sent, in order and with the direction of the
\* address, and Stop, and to nothing else on the way.
C7_Transfer ==
  feed.kind = "transfer" =>
    /\ IsPrefix(log, Expected(feed))
    /\ pending = <<>> => log = Expected(feed)

\* 0xa0 acknowledged, 0xff not acknowledged.
C7_Witness ==
  /\ feed.kind = "transfer"
  /\ pending = <<>>
  /\ feed.address = [v |-> 160, ack |-> 0]
  /\ feed.bytes = <<[v |-> 255, ack |-> 1]>>
  /\ log =
       << <<"START", None, NoAck>>, <<"ADDRESS_WRITE", 80, "ACK">>,
          <<"DATA_WRITE", 255, "NACK">>, <<"STOP", None, NoAck>> >>

\* C8: the waveform of a well-formed combined transfer decodes to Start,
\* address byte, data byte, repeated Start, the second address byte as sent
\* after it, and Stop, and to nothing else on the way.
C8_CombinedTransfer ==
  feed.kind = "combined" =>
    /\ IsPrefix(log, Expected(feed))
    /\ pending = <<>> => log = Expected(feed)

\* A write of 0x01 to 0x50, then a read from 0x50 that is not acknowledged.
C8_Witness ==
  /\ feed.kind = "combined"
  /\ pending = <<>>
  /\ feed.address = [v |-> 160, ack |-> 0]
  /\ feed.byte = [v |-> 1, ack |-> 0]
  /\ feed.again = [v |-> 161, ack |-> 1]
  /\ log =
       << <<"START", None, NoAck>>, <<"ADDRESS_WRITE", 80, "ACK">>,
          <<"DATA_WRITE", 1, "ACK">>, <<"START_REPEAT", None, NoAck>>,
          <<"ADDRESS_READ", 80, "NACK">>, <<"STOP", None, NoAck>> >>

\* ------------------------------------------------- one sample, one decision

\* In a step that consumed one sample: the conditions of lines 171-187 on the
\* levels before it (oldscl, oldsda) and its own (hist'.prev).
StartSeen == oldsda = 1 /\ hist'.prev = <<1, 0>>
StopSeen == oldsda = 0 /\ hist'.prev = <<1, 1>>
Rising == oldscl = 0 /\ hist'.prev[1] = 1

\* C11: a sample makes the decoder put at most one packet, and puts it while
\* it is dispatched: a Start on a sample that satisfies the start condition, a
\* Stop on one that satisfies the stop condition, a byte on the ninth rising
\* clock edge of its group.
C11_OneEventPerSample ==
  [][/\ samplecnt' = samplecnt + 1
     /\ Len(hist'.emitted) <= 1
     /\ Packets(out_proto') = hist'.emitted
     /\ \A i \in 1..Len(hist'.emitted) :
          LET c == hist'.emitted[i][1]
          IN  /\ IsStartCmd(c) => StartSeen
              /\ IsStopCmd(c) => StopSeen
              /\ IsByteCmd(c) => Rising /\ Len(hist.bits) = 8 /\ bitcount = 8
    ]_vars

\* A Stop is put on the sample on which the data line rose, one bit into a
\* group.
C11_Witness ==
  /\ Emitted = <<StopPacket>>
  /\ Packets(out_proto) = Emitted
  /\ hist.prev = <<1, 1>>
  /\ bitcount = 1
  /\ feed.kind = "samples"

\* ------------------------------------------------------- incomplete groups

\* C12: a byte is put only on the ninth rising clock edge since the latest
\* Start or byte.  The edges before it are counted in bitcount and put
\* nothing, so a stream that ends one to eight bits into a group has put
\* nothing for that group; no exception leaves decode.
C12_NinthEdgeOnly ==
  /\ [](/\ raised = ""
        /\ (\E i \in 1..Len(Emitted) : IsByteCmd(EmittedCmds[i]))
             => Len(hist.group) = 9
        /\ state # FIND_START
             => bitcount = Len(hist.bits) /\ bitcount \in 0..8)
  /\ [][Rising /\ state # FIND_START /\ bitcount < 8
          => /\ bitcount' = bitcount + 1
             /\ out_proto' = <<>> /\ out_ann' = <<>>
             /\ state' = state /\ raised' = ""]_vars

\* The stream ends eight bits into a data byte.
C12_Witness ==
  /\ state = FIND_DATA
  /\ bitcount = 8
  /\ Len(hist.bits) = 8
  /\ hist.prev[1] = 1
  /\ out_proto = <<>> /\ out_ann = <<>>
  /\ raised = ""
  /\ feed.kind = "samples"

\* ------------------------------------------------------------ packet shape

\* The commands of the protocol output (lines 80-87).
Commands ==
  {"START", "START_REPEAT", "ADDRESS_READ", "ADDRESS_WRITE",
   "DATA_READ", "DATA_WRITE", "STOP"}

\* C13: every packet put on the protocol output is a triple of a command,
\* data and ack; data and ack are None exactly in START, START_REPEAT and
\* STOP packets, and an address or data packet carries a number and one of
\* ACK and NACK.
C13_PacketShape ==
  \A i \in 1..Len(out_proto) :
    LET packet == out_proto[i][3]
        bare   == IsStartCmd(packet[1]) \/ IsStopCmd(packet[1])
    IN  /\ Len(packet) = 3
        /\ packet[1] \in Commands
        /\ packet[2] = None <=> bare
        /\ packet[3] = NoAck <=> bare
        /\ IsByteCmd(packet[1]) <=> ~bare
        /\ IsByteCmd(packet[1]) =>
             packet[2] \in Nat /\ packet[3] \in {"ACK", "NACK"}

\* A data packet whose value is 0, which is not None.
C13_Witness ==
  /\ Len(out_proto) = 1
  /\ out_proto[1][3] = <<"DATA_WRITE", 0, "ACK">>
  /\ feed.kind = "samples"

\* ------------------------------------------------------------ FIND_ADDRESS

\* C14: in FIND_ADDRESS a sample that satisfies the start or the stop
\* condition and is no rising clock edge puts nothing and leaves state,
\* bitcount, databyte, wr and is_repeat_start alone; FIND_ADDRESS is left
\* for FIND_DATA only, on the ninth rising clock edge after the Start and
\* with the address packet.
C14_AddressFrame ==
  [][state = FIND_ADDRESS =>
       /\ (~Rising /\ (StartSeen \/ StopSeen)) =>
            /\ out_proto' = <<>> /\ out_ann' = <<>>
            /\ UNCHANGED <<state, bitcount, databyte, wr, is_repeat_start>>
       /\ state' \in {FIND_ADDRESS, FIND_DATA}
       /\ state' = FIND_DATA <=> Rising /\ bitcount = 8
       /\ state' = FIND_DATA =>
            /\ Len(hist.bits) = 8
            /\ Len(hist'.emitted) = 1
            /\ IsAddressCmd(hist'.emitted[1][1])
    ]_vars

\* The third sample of a session whose second was a start: the data line
\* rises again while the clock is high, and it is not taken for a stop.
C14_Witness ==
  /\ samplecnt = 3
  /\ feed.kind = "samples"
  /\ hist.prev = <<1, 1>>
  /\ hist.before = "START"
  /\ Emitted = <<>>
  /\ state = FIND_ADDRESS
  /\ is_repeat_start = 1

\* --------------------------------------------------------------- FIND_DATA

\* C15: in FIND_DATA the data bit goes before start and stop: a sample on
\* which the clock rises is accumulated as a data bit, whatever the data line
\* does on it, and puts neither Start nor Stop; a Start or a Stop is put from
\* FIND_DATA only when the clock was high before the sample.
C15_DataBitFirst ==
  [][state = FIND_DATA =>
       /\ Rising =>
            /\ bitcount' = (IF bitcount = 8 THEN 0 ELSE bitcount + 1)
            /\ bitcount < 8 => databyte' = (2 * databyte) + hist'.prev[2]
            /\ state' = FIND_DATA
            /\ \A i \in 1..Len(hist'.emitted) : IsDataCmd(hist'.emitted[i][1])
       /\ (\E i \in 1..Len(hist'.emitted) :
             IsStartCmd(hist'.emitted[i][1]) \/ IsStopCmd(hist'.emitted[i][1]))
            => oldscl = 1 /\ (StartSeen \/ StopSeen)
    ]_vars

\* The sample after the 29 of the first opening waveform, which ends with
\* clock and data low: clock and data rise together, which satisfies the stop
\* condition, and the sample is counted as a bit of value 1.
C15_Witness ==
  /\ samplecnt = Len(Leads[1]) + 1
  /\ fed = 1
  /\ Leads[1][Len(Leads[1])] = <<0, 0>>
  /\ hist.prev = <<1, 1>>
  /\ state = FIND_DATA
  /\ bitcount = 1
  /\ databyte = 1
  /\ Emitted = <<>>

\* ------------------------------------------------------------- sticky flag

\* C16: between samples is_repeat_start is 0 exactly in FIND_START; so a Start
\* found in FIND_START is put as START and one found in FIND_DATA as
\* START_REPEAT, and a Start is found in no other state.
C16_StickyFlag ==
  /\ [](/\ is_repeat_start \in {0, 1}
        /\ is_repeat_start = 0 <=> state = FIND_START)
  /\ [][\A i \in 1..Len(hist'.emitted) :
          LET c == hist'.emitted[i][1]
          IN  IsStartCmd(c) =>
                /\ state \in {FIND_START, FIND_DATA}
                /\ state = FIND_START <=> c = "START"
                /\ state = FIND_DATA <=> c = "START_REPEAT"
                /\ is_repeat_start' = 1
      ]_vars

\* A Start found in FIND_DATA, on the fourth sample after an opening
\* waveform, is put as START_REPEAT.
C16_Witness ==
  /\ Emitted = <<StartPacket(TRUE)>>
  /\ IsAddressCmd(hist.before)
  /\ is_repeat_start = 1
  /\ state = FIND_ADDRESS
  /\ fed = 4

\* ------------------------------------------------- no memory across groups

\* C17: outside FIND_START databyte holds the bits of the rising clock edges
\* since the latest Start or byte and no others, and a byte is built from the
\* nine of them: bits that a Start cut short, or that a Stop left in bitcount
\* and databyte, are in no later byte.
C17_NoMemory ==
  /\ state # FIND_START => databyte = Value(hist.bits)
  /\ ByteEmitted =>
       /\ Len(hist.group) = 9
       /\ hist.acc = Value(hist.group)
       /\ Emitted[1][2] =
            Value(SubSeq(hist.group, 1,
                         IF IsAddressCmd(Emitted[1][1]) THEN 7 ELSE 8))
       /\ databyte = 0 /\ bitcount = 0

\* After an opening waveform: a bit, a Stop that leaves it in bitcount, a
\* Start, and the address byte of nine bits.
C17_Witness ==
  /\ ByteEmitted
  /\ IsAddressCmd(Emitted[1][1])
  /\ hist.before = "START"
  /\ IsAddressCmd(hist.address)
  /\ fed = 21

\* ------------------------------------------------------- state and direction

\* C18: state is one of FIND_START, FIND_ADDRESS and FIND_DATA, and wr is 0
\* or 1 exactly in FIND_DATA and -1 otherwise; a group completes in
\* FIND_ADDRESS or in FIND_DATA, with wr 0 or 1 once line 231 is past, so that
\* d and cmd are assigned before they are used and decode raises nothing.
C18_DirectionDefined ==
  /\ [](/\ state \in {FIND_START, FIND_ADDRESS, FIND_DATA}
        /\ wr \in {-1, 0, 1}
        /\ wr \in {0, 1} <=> state = FIND_DATA
        /\ raised = "")
  /\ [][Rising /\ bitcount = 8 /\ state # FIND_START =>
          /\ state \in {FIND_ADDRESS, FIND_DATA}
          /\ state = FIND_DATA => wr' = wr
          /\ wr' \in {0, 1}
          /\ command(state, wr') # Unbound
          /\ Len(hist'.emitted) = 1
          /\ hist'.emitted[1][1] = command(state, wr')
          /\ hist'.emitted[1][2] # None
          /\ raised' = ""
      ]_vars

\* A group completes in FIND_DATA with wr = 1.
C18_Witness ==
  /\ ByteEmitted
  /\ Emitted[1][1] = "DATA_WRITE"
  /\ state = FIND_DATA
  /\ wr = 1
  /\ raised = ""

\* ------------------------------------------------------------------ chunks

\* The Decoder object as __init__ leaves it.
Fresh ==
  [ samplecnt |-> 0, bitcount |-> 0, databyte |-> 0, wr |-> -1,
    startsample |-> -1, is_repeat_start |-> 0, state |-> FIND_START,
    oldscl |-> None, oldsda |-> None,
    raised |-> "", proto |-> <<>>, ann |-> <<>> ]

\* The sample lists of one decode call, the empty one among them.
Chunks == UNION {[1..n -> Samples] : n \in 0..MaxChunk}

\* The samples fed so far in a session fed in chunks.
Fed == IF feed.kind = "chunks" THEN feed.samples ELSE <<>>

\* A decode call on the samples chunk, in a session fed in chunks.
CallChunk(chunk) ==
  /\ feed.kind \in {"none", "chunks"}
  /\ Call(chunk)
  /\ feed' = [kind |-> "chunks", samples |-> Fed \o chunk]
  /\ log' = log \o Packets(out_proto')

\* A decode call on a chunk of the host's choice.
DecodeChunk ==
  \E chunk \in Chunks :
    /\ pending = <<>>
    /\ fed + Len(chunk) <= MaxChunkSamples
    /\ CallChunk(chunk)
    /\ fed' = fed + Len(chunk)
    /\ UNCHANGED pending

\* A session may open on a well-formed waveform, of which the first decode
\* call takes the first n samples.
DecodeChunkLead ==
  \E i \in 1..Len(Leads) : \E n \in 0..Len(Leads[i]) :
    /\ feed.kind = "none"
    /\ CallChunk(SubSeq(Leads[i], 1, n))
    /\ pending' = SubSeq(Leads[i], n + 1, Len(Leads[i]))
    /\ UNCHANGED fed

\* A decode call on the next n samples of the waveform.
DecodeChunkPending ==
  \E n \in 0..Len(pending) :
    /\ pending # <<>>
    /\ CallChunk(SubSeq(pending, 1, n))
    /\ pending' = SubSeq(pending, n + 1, Len(pending))
    /\ UNCHANGED fed

NextChunk == DecodeChunk \/ DecodeChunkLead \/ DecodeChunkPending

SpecChunk == Init /\ [][NextChunk]_vars

IsSuffix(a, b) ==
  Len(a) <= Len(b) /\ a = SubSeq(b, Len(b) - Len(a) + 1, Len(b))

\* C19: however the samples of a session are split into decode calls, empty
\* ones included, the packets put and the Decoder's fields are those of one
\* decode call on all the samples; the first sample of the session is the
\* only one that is taken for the first.
C19_Chunking ==
  feed.kind = "chunks" =>
    \E whole \in {decode(Fresh, NoHistory, feed.samples)} :
      /\ Packets(whole.self.proto) = log
      /\ IsSuffix(out_proto, whole.self.proto)
      /\ IsSuffix(out_ann, whole.self.ann)
      /\ [whole.self EXCEPT !.proto = <<>>, !.ann = <<>>]
           = [Self EXCEPT !.raised = raised]
      /\ whole.hist = hist
      /\ samplecnt = Len(feed.samples)
      /\ feed.samples # <<>> => oldscl # None /\ oldsda # None

\* The first opening waveform was fed in several decode calls: the last of
\* them put nothing, an earlier one the address byte.
C19_Witness ==
  /\ feed.kind = "chunks"
  /\ feed.samples = Leads[1]
  /\ pending = <<>>
  /\ out_proto = <<>> /\ out_ann = <<>>
  /\ log = <<StartPacket(FALSE), <<"ADDRESS_WRITE", 80, "ACK">>>>
  /\ state = FIND_DATA

\* ------------------------------------------------------------- startsample

\* C20 as claimed: between samples startsample is -1 whenever bitcount is 0;
\* the sample that accumulates the first bit of a group sets startsample to
\* its samplecnt, and startsample stays while bitcount stays above 0.
C20_StartsampleMarks ==
  /\ [](bitcount = 0 => startsample = -1)
  /\ [][/\ (bitcount = 0 /\ bitcount' = 1) => startsample' = samplecnt'
        /\ (bitcount > 0 /\ bitcount' > 0) => startsample' = startsample
      ]_vars
====
